---- MODULE Spec2Model ----
\* A model of Documentinsights.py: the Streamlit script that extracts the text
\* of an uploaded PDF, sends it chunk by chunk to the generation service,
\* displays the joined result and offers it as a Word document.
\*
\* Text is modelled as a sequence of tokens, so that concatenation, joining
\* and formatting are the sequence operations the code performs on strings.
\* A page text is a pair <<kind, n>>; a dict is the sequence of its
\* (key, value) items in insertion order.
EXTENDS Integers, Sequences, FiniteSets, TLC

\* ------------------------------------------------------------------ bounds
MaxRuns == 3        \* script runs started over all sessions
MaxFaults == 1      \* failing answers of the external collaborators
BigPages == 91      \* pages of the large uploaded document
MaxPages == 5       \* chunk_pages alone: pages of the input mapping
MaxChunkSize == 6   \* chunk_pages alone: chunk_size

\* ------------------------------------------------------- program constants
UI_CHUNK_SIZE == 90

Sessions == {"s1", "s2"}

Sentinel == <<"[No extractable text found on this page]", 0>>
Newline == <<"\n", 0>>
Marker == "[Watsonx response error: "
Suffix == "_Insurance_Claim_Analysis.docx"
ExtractionErrorMsg == "Error extracting text from PDF"
NoTextMsg == "No text could be extracted from the PDF"
AnalysisErrorMsg == "Error during analysis"
WordErrorMsg == "Error creating Word document"

\* ------------------------------------------------------------------ inputs
\* What page.extract_text() gives for a page: text, whitespace only, or an
\* exception.
Text(n) == <<"text", n>>
Blank == <<" ", 0>>
Raises == <<"raise", 0>>

\* The uploaded PDFs: a name <<base, extension>>, whether PdfReader can parse
\* the stream, and what each page gives.
BigPdf ==
    [name |-> <<"claim", ".pdf">>, readable |-> TRUE,
     pages |-> [n \in 1..BigPages |-> IF n = 2 THEN Blank ELSE Text(n)]]

SmallPdf ==
    [name |-> <<"other", ".pdf">>, readable |-> TRUE,
     pages |-> <<Text(1), Text(2)>>]

CorruptPdf ==
    [name |-> <<"claim", ".pdf">>, readable |-> FALSE, pages |-> <<>>]

BadPagePdf ==
    [name |-> <<"other", ".pdf">>, readable |-> TRUE,
     pages |-> <<Text(1), Text(2), Raises>>]

Pdfs == {BigPdf, SmallPdf, CorruptPdf, BadPagePdf}

\* -------------------------------------------------- extract_text_from_pdf
PageLabel(n) == <<"Page", n>>

\* str.strip() of a page text is truthy iff the text is not whitespace only.
StripTruthy(page_text) == page_text[1] = "text"

\* The loop over reader.pages runs up to the first page whose extraction
\* raises: raised says whether it stopped on an exception, extracted_text is
\* the mapping built until then.
ExtractLoop(pages) ==
    LET failing == {n \in 1..Len(pages) : pages[n] = Raises}
        stop == IF failing = {} THEN Len(pages) + 1
                ELSE CHOOSE n \in failing : \A m \in failing : n <= m
    IN [raised |-> failing # {},
        extracted_text |->
            [n \in 1..(stop - 1) |->
                <<PageLabel(n),
                  IF StripTruthy(pages[n]) THEN pages[n] ELSE Sentinel>>]]

\* A variant that keeps the pages read before the failure.
extract_text_from_pdf_partial(uploaded_pdf) ==
    IF ~uploaded_pdf.readable
    THEN [value |-> <<>>, error |-> TRUE]
    ELSE LET r == ExtractLoop(uploaded_pdf.pages)
         IN [value |-> r.extracted_text, error |-> r.raised]

\* value: the returned mapping; error: st.error was called.
extract_text_from_pdf(uploaded_pdf) ==
    IF ~uploaded_pdf.readable
    THEN [value |-> <<>>, error |-> TRUE]
    ELSE LET r == ExtractLoop(uploaded_pdf.pages)
         IN IF r.raised
            THEN [value |-> <<>>, error |-> TRUE]
            ELSE [value |-> r.extracted_text, error |-> FALSE]

\* ------------------------------------------------------------- chunk_pages
Min(a, b) == IF a < b THEN a ELSE b

\* pages[i:i + chunk_size] for a 0-based i.
Slice(pages, i, chunk_size) ==
    SubSeq(pages, i + 1, Min(i + chunk_size, Len(pages)))

\* range(start, stop, step) as the sequence of its values, for step > 0.
Range(start, stop, step) ==
    LET count == IF stop > start THEN (stop - start + step - 1) \div step ELSE 0
    IN [j \in 1..count |-> start + (j - 1) * step]

\* A variant whose slices are one page short.
chunk_pages_short(extracted_dict, chunk_size) ==
    LET pages == extracted_dict
        starts == Range(0, Len(pages), chunk_size)
    IN [j \in 1..Len(starts) |-> Slice(pages, starts[j], chunk_size - 1)]

\* A variant whose range runs one past the end of the pages.
chunk_pages_past_end(extracted_dict, chunk_size) ==
    LET pages == extracted_dict
        starts == Range(0, Len(pages) + 1, chunk_size)
    IN [j \in 1..Len(starts) |-> Slice(pages, starts[j], chunk_size)]

chunk_pages(extracted_dict, chunk_size) ==
    LET pages == extracted_dict
        starts == Range(0, Len(pages), chunk_size)
    IN [j \in 1..Len(starts) |-> Slice(pages, starts[j], chunk_size)]

\* ---------------------------------------------------- get_ibm_access_token
\* What the identity service does with the request.
TokenAnswers == {"token", "http401", "unreachable"}

\* A variant that reads the field with a default instead of indexing.
get_ibm_access_token_lenient(api_key, answer) ==
    IF answer = "unreachable"
    THEN [raised |-> TRUE, value |-> <<>>]
    ELSE [raised |-> FALSE,
          value |-> IF answer = "token" THEN <<"access_token">> ELSE <<"None">>]

\* raised: requests.post raised, or the body has no "access_token" key.
get_ibm_access_token(api_key, answer) ==
    IF answer = "unreachable"
    THEN [raised |-> TRUE, value |-> <<>>]
    ELSE IF answer = "http401"
         THEN [raised |-> TRUE, value |-> <<>>]
         ELSE [raised |-> FALSE, value |-> <<"access_token">>]

\* --------------------------------------------------- send_chunk_to_watsonx
\* What the generation service does with the request.
ChunkAnswers == {"generated", "missing_field", "malformed_json", "network_error"}

\* response.text of an answer.
RawBody(answer) ==
    IF answer = "generated" THEN "{results: [{generated_text}]}"
    ELSE IF answer = "missing_field" THEN "{errors}"
    ELSE "<html>"

\* str(e) of the exception the try block raises on an answer.
Detail(answer) ==
    IF answer = "missing_field" THEN "'results'" ELSE "Expecting value"

\* requests.post is outside the try block: an exception of the transport
\* leaves the function. Inside it, any exception becomes the returned string.
send_chunk_to_watsonx(chunk_text, access_token, answer) ==
    IF answer = "network_error"
    THEN [raised |-> TRUE, value |-> <<>>]
    ELSE IF answer = "generated"
         THEN [raised |-> FALSE, value |-> <<"generated_text">>]
         ELSE [raised |-> FALSE,
               value |-> <<Marker, Detail(answer), " - Raw: ", RawBody(answer), "]">>]

\* ---------------------------------------------- save_to_word_from_markdown
\* What pypandoc does.
WordAnswers == {"converted", "pandoc_error"}

\* os.path.splitext(name)[0]
BaseName(upload_file_name) == upload_file_name[1]

\* os.path.join(os.getcwd(), f"{base_name}_Insurance_Claim_Analysis.docx")
OutputPath(upload_file_name) == <<"cwd", BaseName(upload_file_name) , Suffix>>

\* os.path.basename(path)
PathBaseName(path) == <<path[2], path[3]>>

\* The document pypandoc writes for a markdown text.
Docx(markdown_text) == <<"docx">> \o markdown_text

\* A variant that returns the path although the conversion failed.
save_to_word_from_markdown_always(markdown_text, upload_file_name, answer) ==
    [value |-> OutputPath(upload_file_name),
     error |-> answer # "converted",
     written |-> IF answer = "converted" THEN <<Docx(markdown_text)>> ELSE <<>>]

\* value: the returned path, <<>> for None; error: st.error was called;
\* written: the document written to the path, if any.
save_to_word_from_markdown(markdown_text, upload_file_name, answer) ==
    IF answer = "converted"
    THEN [value |-> OutputPath(upload_file_name), error |-> FALSE,
          written |-> <<Docx(markdown_text)>>]
    ELSE [value |-> <<>>, error |-> TRUE, written |-> <<>>]

\* ------------------------------------------------------ string operations
\* "\n".join(chunk.values())
JoinLines(items) ==
    [k \in 1..(IF Len(items) = 0 THEN 0 ELSE 2 * Len(items) - 1) |->
        IF k % 2 = 1 THEN items[(k + 1) \div 2][2] ELSE Newline]

\* "\n\n".join(watsonx_outputs)
RECURSIVE JoinBlank(_)
JoinBlank(outputs) ==
    IF Len(outputs) = 0 THEN <<>>
    ELSE IF Len(outputs) = 1 THEN outputs[1]
    ELSE outputs[1] \o <<"\n\n">> \o JoinBlank(Tail(outputs))

\* ------------------------------------------------------------------- state
VARIABLES
    pc,               \* where each session's script run stands
    uploaded_file,    \* st.file_uploader's value: <<>> or <<pdf>>
    extracted_pages,  \* the mapping extract_text_from_pdf returned
    token,            \* the bearer token of this run
    chunks,           \* chunk_pages(extracted_pages, chunk_size=90)
    i,                \* the index of the chunk loop
    watsonx_outputs,  \* the results appended so far
    final_output,     \* the joined results
    displayed,        \* what st.markdown shows under the results heading
    errors,           \* the st.error messages of this run
    download,         \* the st.download_button of this run: <<>> or <<button>>
    session_state,    \* st.session_state: a function on the keys that are set
    disk,             \* the files of the working directory, by path
    requests,         \* history: the chunk texts posted in this run
    answers,          \* history: the generation service's answers in this run
    token_answer,     \* history: the identity service's answer in this run
    conversions,      \* history: pypandoc's answers in this run
    generated_from,   \* history: the upload and text word_path was written for
    runs,             \* script runs started so far
    faults,           \* failing answers so far
    cp_pages,         \* chunk_pages alone: the input mapping
    cp_size,          \* chunk_pages alone: chunk_size
    cp_result         \* chunk_pages alone: <<>> or <<the returned list>>

local_vars == <<extracted_pages, token, chunks, i, watsonx_outputs, final_output,
                displayed, errors, download, requests, answers, token_answer,
                conversions>>
session_vars == <<session_state, disk, generated_from>>
cp_vars == <<cp_pages, cp_size, cp_result>>
vars == <<pc, uploaded_file, local_vars, session_vars, runs, faults, cp_vars>>

Set(f, s, v) == [f EXCEPT ![s] = v]

PipelineInit ==
    /\ pc = [s \in Sessions |-> "idle"]
    /\ uploaded_file = [s \in Sessions |-> <<>>]
    /\ extracted_pages = [s \in Sessions |-> <<>>]
    /\ token = [s \in Sessions |-> <<>>]
    /\ chunks = [s \in Sessions |-> <<>>]
    /\ i = [s \in Sessions |-> 0]
    /\ watsonx_outputs = [s \in Sessions |-> <<>>]
    /\ final_output = [s \in Sessions |-> <<>>]
    /\ displayed = [s \in Sessions |-> <<>>]
    /\ errors = [s \in Sessions |-> {}]
    /\ download = [s \in Sessions |-> <<>>]
    /\ session_state = [s \in Sessions |-> <<>>]
    /\ disk = <<>>
    /\ requests = [s \in Sessions |-> <<>>]
    /\ answers = [s \in Sessions |-> <<>>]
    /\ token_answer = [s \in Sessions |-> <<>>]
    /\ conversions = [s \in Sessions |-> <<>>]
    /\ generated_from = [s \in Sessions |-> <<>>]
    /\ runs = 0
    /\ faults = 0

Init ==
    /\ PipelineInit
    /\ cp_pages = <<>>
    /\ cp_size = 1
    /\ cp_result = <<>>

\* A script run starts from the top: every local of the previous run is gone
\* and the page is redrawn; st.session_state and the files stay.
StartRun(s) ==
    /\ runs < MaxRuns
    /\ runs' = runs + 1
    /\ pc' = Set(pc, s, "extract")
    /\ extracted_pages' = Set(extracted_pages, s, <<>>)
    /\ token' = Set(token, s, <<>>)
    /\ chunks' = Set(chunks, s, <<>>)
    /\ i' = Set(i, s, 0)
    /\ watsonx_outputs' = Set(watsonx_outputs, s, <<>>)
    /\ final_output' = Set(final_output, s, <<>>)
    /\ displayed' = Set(displayed, s, <<>>)
    /\ errors' = Set(errors, s, {})
    /\ download' = Set(download, s, <<>>)
    /\ requests' = Set(requests, s, <<>>)
    /\ answers' = Set(answers, s, <<>>)
    /\ token_answer' = Set(token_answer, s, <<>>)
    /\ conversions' = Set(conversions, s, <<>>)
    /\ UNCHANGED <<session_vars, faults, cp_vars>>

\* The user picks a file in the uploader; Streamlit runs the script.
Upload(s, pdf) ==
    /\ pc[s] \in {"idle", "done"}
    /\ uploaded_file' = Set(uploaded_file, s, <<pdf>>)
    /\ StartRun(s)

\* Any later interaction with the page (a click on the download button, say)
\* runs the script again with the same uploaded file.
Rerun(s) ==
    /\ pc[s] = "done"
    /\ uploaded_file[s] # <<>>
    /\ UNCHANGED uploaded_file
    /\ StartRun(s)

\* The cost of an answer against the budget of failing answers.
Fault(answer, good) == IF answer = good THEN 0 ELSE 1

\* Lines 117-122 and 171-172: extraction, and the branch on its result.
Extract(s) ==
    /\ pc[s] = "extract"
    /\ LET r == extract_text_from_pdf(uploaded_file[s][1])
       IN /\ extracted_pages' = Set(extracted_pages, s, r.value)
          /\ IF r.value # <<>>
             THEN /\ pc' = Set(pc, s, "token")
                  /\ errors' = Set(errors, s,
                         IF r.error THEN {ExtractionErrorMsg} ELSE {})
             ELSE /\ pc' = Set(pc, s, "done")
                  /\ errors' = Set(errors, s,
                         (IF r.error THEN {ExtractionErrorMsg} ELSE {})
                         \cup {NoTextMsg})
    /\ UNCHANGED <<uploaded_file, token, chunks, i, watsonx_outputs, final_output,
                   displayed, download, requests, answers, token_answer,
                   conversions, session_vars, runs, faults, cp_vars>>

\* Lines 129-136, and 169-170 when the token request raises.
GetToken(s) ==
    /\ pc[s] = "token"
    /\ \E answer \in TokenAnswers :
         LET r == get_ibm_access_token("API_KEY", answer)
         IN /\ faults + Fault(answer, "token") <= MaxFaults
            /\ faults' = faults + Fault(answer, "token")
            /\ token_answer' = Set(token_answer, s, <<answer>>)
            /\ IF r.raised
               THEN /\ errors' = Set(errors, s, errors[s] \cup {AnalysisErrorMsg})
                    /\ pc' = Set(pc, s, "done")
                    /\ UNCHANGED <<token, chunks>>
               ELSE /\ token' = Set(token, s, r.value)
                    /\ chunks' = Set(chunks, s,
                           chunk_pages(extracted_pages[s], UI_CHUNK_SIZE))
                    /\ pc' = Set(pc, s,
                           IF Len(chunks'[s]) > 0 THEN "analyze" ELSE "display")
                    /\ UNCHANGED errors
    /\ UNCHANGED <<uploaded_file, extracted_pages, i, watsonx_outputs,
                   final_output, displayed, download, requests, answers,
                   conversions, session_vars, runs, cp_vars>>

\* Lines 138-142: one turn of the chunk loop, and 169-170 when the call raises.
Analyze(s) ==
    /\ pc[s] = "analyze"
    /\ \E answer \in ChunkAnswers :
         LET chunk == chunks[s][i[s] + 1]
             chunk_text == JoinLines(chunk)
             r == send_chunk_to_watsonx(chunk_text, token[s], answer)
         IN /\ faults + Fault(answer, "generated") <= MaxFaults
            /\ faults' = faults + Fault(answer, "generated")
            /\ requests' = Set(requests, s, Append(requests[s], chunk_text))
            /\ answers' = Set(answers, s, Append(answers[s], answer))
            /\ IF r.raised
               THEN /\ errors' = Set(errors, s, errors[s] \cup {AnalysisErrorMsg})
                    /\ pc' = Set(pc, s, "done")
                    /\ UNCHANGED <<i, watsonx_outputs>>
               ELSE /\ watsonx_outputs' =
                           Set(watsonx_outputs, s, Append(watsonx_outputs[s], r.value))
                    /\ i' = Set(i, s, i[s] + 1)
                    /\ pc' = Set(pc, s,
                           IF i[s] + 1 < Len(chunks[s]) THEN "analyze" ELSE "display")
                    /\ UNCHANGED errors
    /\ UNCHANGED <<uploaded_file, extracted_pages, token, chunks, final_output,
                   displayed, download, token_answer, conversions, session_vars,
                   runs, cp_vars>>

\* Lines 144-149: the results are joined and shown.
Display(s) ==
    /\ pc[s] = "display"
    /\ final_output' = Set(final_output, s, JoinBlank(watsonx_outputs[s]))
    /\ displayed' = Set(displayed, s, <<final_output'[s]>>)
    /\ pc' = Set(pc, s, "generate")
    /\ UNCHANGED <<uploaded_file, extracted_pages, token, chunks, i,
                   watsonx_outputs, errors, download, requests, answers,
                   token_answer, conversions, session_vars, runs, faults, cp_vars>>

\* Lines 151-157: the document is generated unless the session has the flag.
Generate(s) ==
    /\ pc[s] = "generate"
    /\ pc' = Set(pc, s, "download")
    /\ IF "word_generated" \notin DOMAIN session_state[s]
       THEN \E answer \in WordAnswers :
              LET name == uploaded_file[s][1].name
                  r == save_to_word_from_markdown(final_output[s], name, answer)
                  word_path == r.value
              IN /\ faults + Fault(answer, "converted") <= MaxFaults
                 /\ faults' = faults + Fault(answer, "converted")
                 /\ conversions' = Set(conversions, s, Append(conversions[s], answer))
                 /\ errors' = Set(errors, s,
                        errors[s] \cup (IF r.error THEN {WordErrorMsg} ELSE {}))
                 /\ disk' = IF r.written # <<>>
                            THEN [p \in DOMAIN disk \cup {OutputPath(name)} |->
                                    IF p = OutputPath(name) THEN r.written[1]
                                    ELSE disk[p]]
                            ELSE disk
                 /\ IF word_path # <<>>
                    THEN /\ session_state' = Set(session_state, s,
                                [word_generated |-> <<"True">>, word_path |-> word_path])
                         /\ generated_from' = Set(generated_from, s,
                                <<[upload |-> uploaded_file[s][1],
                                   text |-> final_output[s]]>>)
                    ELSE UNCHANGED <<session_state, generated_from>>
       ELSE UNCHANGED <<faults, conversions, errors, session_vars>>
    /\ UNCHANGED <<uploaded_file, extracted_pages, token, chunks, i,
                   watsonx_outputs, final_output, displayed, download, requests,
                   answers, token_answer, runs, cp_vars>>

\* Lines 159-167: the button is drawn with the bytes of the file at word_path.
Download(s) ==
    /\ pc[s] = "download"
    /\ pc' = Set(pc, s, "done")
    /\ IF /\ "word_path" \in DOMAIN session_state[s]
          /\ session_state[s].word_path \in DOMAIN disk
       THEN download' = Set(download, s,
                <<[file_name |-> PathBaseName(session_state[s].word_path),
                   data |-> disk[session_state[s].word_path]]>>)
       ELSE UNCHANGED download
    /\ UNCHANGED <<uploaded_file, extracted_pages, token, chunks, i,
                   watsonx_outputs, final_output, displayed, errors, requests,
                   answers, token_answer, conversions, session_vars, runs, faults,
                   cp_vars>>

Step(s) ==
    \/ \E pdf \in Pdfs : Upload(s, pdf)
    \/ Rerun(s)
    \/ Extract(s)
    \/ GetToken(s)
    \/ Analyze(s)
    \/ Display(s)
    \/ Generate(s)
    \/ Download(s)

Next == \E s \in Sessions : Step(s)

Spec == Init /\ [][Next]_vars

\* chunk_pages alone, on every mapping of at most MaxPages pages and every
\* chunk size up to MaxChunkSize. The keys of a mapping are distinct, so
\* list(d.items()) and dict(items) keep the items and their order.
Mappings ==
    UNION {[1..m -> {"text", " "}] : m \in 0..MaxPages}

MappingOf(kinds) ==
    [n \in 1..Len(kinds) |->
        <<PageLabel(n), IF kinds[n] = "text" THEN Text(n) ELSE Sentinel>>]

InitChunk ==
    /\ PipelineInit
    /\ \E kinds \in Mappings : cp_pages = MappingOf(kinds)
    /\ cp_size \in 1..MaxChunkSize
    /\ cp_result = <<>>

ChunkPages ==
    /\ cp_result = <<>>
    /\ cp_result' = <<chunk_pages(cp_pages, cp_size)>>
    /\ UNCHANGED <<pc, uploaded_file, local_vars, session_vars, runs, faults,
                   cp_pages, cp_size>>

NextChunk == ChunkPages

SpecChunk == InitChunk /\ [][NextChunk]_vars

\* ================================================================== claims
Failed(answer_seq, good) == answer_seq # <<>> /\ answer_seq[1] # good

\* C1: whenever the token request fails in a run (a 401 / a body without the
\* access-token field, or an unreachable identity service), that run halts
\* there: no chunk-analysis request is issued, no result is displayed and no
\* document conversion is attempted; the analysis error is shown instead.
C1_TokenFailureHalts ==
    \A s \in Sessions :
        Failed(token_answer[s], "token") =>
            /\ pc[s] = "done"
            /\ requests[s] = <<>>
            /\ answers[s] = <<>>
            /\ displayed[s] = <<>>
            /\ conversions[s] = <<>>
            /\ download[s] = <<>>
            /\ AnalysisErrorMsg \in errors[s]

\* A run of a readable upload has ended on a refused credential.
C1_Witness ==
    \E s \in Sessions :
        /\ pc[s] = "done"
        /\ token_answer[s] = <<"http401">>
        /\ extracted_pages[s] # <<>>

\* The i-th result the loop should hold for the answers it received.
IsSoftFailure(result) == result[1] = Marker

\* C2: with a token and N >= 1 chunks, whatever the per-chunk failures, the
\* run does not halt: every chunk is sent exactly once, in chunk order, each
\* only after the previous result was appended, and the displayed report is
\* the N results joined by a blank line, the failed chunks' diagnostics
\* included.
C2_SoftFailuresDoNotHalt ==
    \A s \in Sessions :
        /\ Len(requests[s]) <= Len(watsonx_outputs[s]) + 1
        /\ (pc[s] = "done" /\ token_answer[s] = <<"token">> /\ Len(chunks[s]) >= 1) =>
              /\ requests[s] = [j \in 1..Len(chunks[s]) |-> JoinLines(chunks[s][j])]
              /\ Len(watsonx_outputs[s]) = Len(chunks[s])
              /\ \A j \in 1..Len(watsonx_outputs[s]) :
                    answers[s][j] # "generated" => IsSoftFailure(watsonx_outputs[s][j])
              /\ final_output[s] = JoinBlank(watsonx_outputs[s])
              /\ displayed[s] = <<final_output[s]>>

\* C3: send_chunk_to_watsonx never raises: every call returns a result, and
\* for a network error, a malformed JSON body or a missing field the result
\* is the string with the "Watsonx response error" marker, the failure detail
\* and the raw body.
C3_SendNeverRaises ==
    \A s \in Sessions :
        /\ Len(watsonx_outputs[s]) = Len(answers[s])
        /\ \A j \in 1..Len(answers[s]) :
              answers[s][j] # "generated" =>
                  watsonx_outputs[s][j] =
                      <<Marker, Detail(answers[s][j]), " - Raw: ",
                        RawBody(answers[s][j]), "]">>

RECURSIVE Flatten(_)
Flatten(seqs) == IF seqs = <<>> THEN <<>> ELSE Head(seqs) \o Flatten(Tail(seqs))

\* C4: for M >= 0 pages and a chunk size K >= 1, chunk_pages returns
\* ceil(M/K) chunks of at most K pages, chunk j being the pages
\* (j-1)K+1 .. min(jK, M) of the input in their order, so that the chunks
\* concatenated are the input: every page once, no gap, no reordering.
C4_ChunksPartitionPages ==
    cp_result # <<>> =>
        LET result == cp_result[1]
            M == Len(cp_pages)
            K == cp_size
        IN /\ Len(result) = (M + K - 1) \div K
           /\ \A j \in 1..Len(result) :
                 /\ Len(result[j]) <= K
                 /\ Len(result[j]) >= 1
                 /\ result[j] = SubSeq(cp_pages, (j - 1) * K + 1, Min(j * K, M))
           /\ Flatten(result) = cp_pages

\* Several chunks, the last one shorter than the others.
C4_Witness ==
    /\ cp_result # <<>>
    /\ Len(cp_result[1]) >= 2
    /\ Len(cp_pages) % cp_size # 0

\* The upload a run works on is the one the session's document was made for.
ForCurrentUpload(s) == generated_from[s][1].upload = uploaded_file[s][1]

\* C5: a new upload resets the session: whenever the download is offered it
\* is the document generated for the file uploaded now, under that file's
\* name, never the one generated for an earlier upload.
C5_NewUploadResetsSession ==
    \A s \in Sessions :
        download[s] # <<>> =>
            /\ ForCurrentUpload(s)
            /\ download[s][1].file_name =
                   PathBaseName(OutputPath(uploaded_file[s][1].name))

\* C6: over the runs of a session for one uploaded file, whenever the
\* download is offered, the document of the session was generated from the
\* report displayed in that same run.
C6_DocumentFromDisplayedReport ==
    \A s \in Sessions :
        (download[s] # <<>> /\ ForCurrentUpload(s)) =>
            /\ displayed[s] = <<final_output[s]>>
            /\ generated_from[s][1].text = final_output[s]

\* C7: when the conversion fails in a run, no flag and no path are recorded
\* in the session, the download is not offered in that run, and the results
\* of that run stay displayed, with the conversion error and without the
\* analysis error.
C7_ConversionFailureKeepsResults ==
    \A s \in Sessions :
        Failed(conversions[s], "converted") =>
            /\ session_state[s] = <<>>
            /\ generated_from[s] = <<>>
            /\ download[s] = <<>>
            /\ displayed[s] = <<final_output[s]>>
            /\ final_output[s] = JoinBlank(watsonx_outputs[s])
            /\ WordErrorMsg \in errors[s]
            /\ AnalysisErrorMsg \notin errors[s]

\* A run has ended after a failed conversion, its results on the screen.
C7_Witness ==
    \E s \in Sessions :
        /\ pc[s] = "done"
        /\ conversions[s] = <<"pandoc_error">>
        /\ displayed[s] # <<>>

\* The reader cannot parse the stream, or the extraction of a page raises.
ExtractionFails(pdf) ==
    \/ ~pdf.readable
    \/ \E n \in 1..Len(pdf.pages) : pdf.pages[n] = Raises

\* C8: when the extraction fails, the returned mapping is empty (no page read
\* before the failure is kept), the extraction error is shown and the run
\* halts: no token request, no chunking, no chunk-analysis request, no
\* result and no conversion.
C8_ExtractionFailureHalts ==
    \A s \in Sessions :
        (/\ uploaded_file[s] # <<>>
         /\ pc[s] # "extract"
         /\ ExtractionFails(uploaded_file[s][1])) =>
            /\ pc[s] = "done"
            /\ extracted_pages[s] = <<>>
            /\ ExtractionErrorMsg \in errors[s]
            /\ token_answer[s] = <<>>
            /\ chunks[s] = <<>>
            /\ requests[s] = <<>>
            /\ displayed[s] = <<>>
            /\ conversions[s] = <<>>
            /\ download[s] = <<>>

\* A run has ended on a PDF whose third page raises after two were read.
C8_Witness ==
    \E s \in Sessions :
        /\ pc[s] = "done"
        /\ uploaded_file[s] = <<BadPagePdf>>
        /\ ExtractionErrorMsg \in errors[s]

\* C9: sessions share no mutable state: whatever the other session does, the
\* document a session's download serves is the one that session generated
\* from its own report.
C9_SessionsShareNothing ==
    \A s \in Sessions :
        download[s] # <<>> =>
            download[s][1].data = Docx(generated_from[s][1].text)

\* C10 as stated: for K >= M, chunk_pages returns exactly one chunk, holding
\* all M pages in their order.
C10_Original ==
    (cp_result # <<>> /\ cp_size >= Len(cp_pages)) =>
        /\ Len(cp_result[1]) = 1
        /\ cp_result[1][1] = cp_pages

\* C10 amended: for K >= M >= 1, chunk_pages returns exactly one chunk,
\* holding all M pages in their order; for M = 0 it returns no chunk.
C10_OneChunkWhenNonEmpty ==
    (cp_result # <<>> /\ cp_size >= Len(cp_pages)) =>
        IF Len(cp_pages) >= 1
        THEN /\ Len(cp_result[1]) = 1
             /\ cp_result[1][1] = cp_pages
        ELSE cp_result[1] = <<>>

\* A mapping of several pages chunked with a chunk size that covers it.
C10_Witness ==
    /\ cp_result # <<>>
    /\ Len(cp_pages) >= 2
    /\ cp_size >= Len(cp_pages)

====
